---- MODULE Spec2Model ----
(***************************************************************************)
(* Authentication and identity caching of the photo application:          *)
(* src/services/auth.py (token issue and verification, get_current_user), *)
(* src/routes/auth.py (login, refresh_token, confirmed_email,             *)
(* reset_password), src/routes/users.py (read_users_me, edit_my_profile,  *)
(* all_users, ban_user, activate_user, change_role) and                   *)
(* src/repository/users.py (user store).                                  *)
(*                                                                         *)
(* Every request is a coroutine: it is modelled as a record in a slot of  *)
(* reqs whose pc names the await it is suspended at.  One action is one   *)
(* step between two awaits.  Spec interleaves the steps of up to MaxReq   *)
(* requests; SpecSeq, SpecMut, SpecGate, SpecAdmin and SpecLinks run one  *)
(* request at a time, start to finish, each on a group of routes.         *)
(***************************************************************************)
EXTENDS Integers, Sequences, FiniteSets, TLC

\* ---------------------------------------------------------------- bounds
MaxReq == 2
MaxTicks == 2
MaxTicksConc == 1
MaxArrivals == 3

\* ------------------------------------------------------ program constants
AccessMinutes == 15
RefreshDays == 7
CacheTTL == 900

Slots == 1..MaxReq

\* Token subjects: the e-mail addresses of the two user records.
Emails == {"alice@example.com", "bob@example.com"}

\* Clock steps: one second, and the lifetime of a cache entry and of a default
\* access token.
TickSteps == {1, CacheTTL}

\* Optional[float] expires_delta: <<>> is None, <<d>> is the number d.
ExpiresDeltas == {<< >>, <<0>>, <<1>>}

VARIABLES
    now,      \* datetime.utcnow(), in whole seconds
    past,     \* the clock readings so far (tokens can have been issued then)
    users,    \* the users table: email -> row
    cache,    \* redis: email -> the entry under user:<email>
    revoked,  \* the tokens is_validate_token reports
    reqs,     \* the requests in flight: slot -> coroutine state
    arrivals, \* the number of requests received so far
    hist      \* what has been reported to callers (for the properties)

vars == <<now, past, users, cache, revoked, reqs, arrivals, hist>>

\* ------------------------------------------------------------------ data
NoToken == [sub |-> "", iat |-> -1, exp |-> -1, scope |-> "", sig |-> FALSE]
\* Auth.get_password_hash: the bcrypt hash of a password (never the
\* password itself).
get_password_hash(password) == [bcrypt |-> password]

NoUser == [email |-> "", username |-> "", is_active |-> FALSE, confirmed |-> FALSE,
           roles |-> "", avatar |-> "", password |-> get_password_hash(""),
           refresh_token |-> NoToken]
\* redis: a key without a time to live reports TTL -1
NoExpiry == -1
NoEntry == [present |-> FALSE, user |-> NoUser, expireAt |-> NoExpiry]

\* HTTPException details
CredentialsException == "Could not validate credentials"
UserBanned == "The user is on the ban list"
InvalidRefreshToken == "Invalid refresh token"
InvalidScope == "Invalid scope for token"
InvalidEmailToken == "Invalid token for email verification"
VerificationError == "Verification error"

\* The 500 response of an unhandled exception.
ServerError == "Internal Server Error"

\* Subjects without a users row: none at all (a token made from data that
\* has no "sub"), and an address nobody signed up with.
NoSubject == ""
UnknownEmail == "ghost@example.com"

\* A payload without a "scope" claim.
NoScope == ""

\* The users table after the two sign-ups and e-mail confirmations; alice
\* has been made admin.
InitUsers == [e \in Emails |->
    [email |-> e,
     username |-> IF e = "alice@example.com" THEN "alice" ELSE "bob",
     is_active |-> TRUE, confirmed |-> TRUE,
     roles |-> IF e = "alice@example.com" THEN "admin" ELSE "user",
     avatar |-> "gravatar",
     password |-> get_password_hash("secret"),
     refresh_token |-> NoToken]]

Usernames == {"alice", "bob", "ghost"}

\* ------------------------------------------------------- token service
\* `if expires_delta is not None:` in place of `if expires_delta:`.
TruthyNotNone(expires_delta) == expires_delta # << >>

\* `if expires_delta:` is false for None and for 0.
Truthy(expires_delta) == expires_delta # << >> /\ expires_delta[1] # 0

\* create_access_token without the 15-minute default of its else branch.
create_access_token_nodefault(sub, expires_delta, t) ==
    [sub |-> sub, iat |-> t,
     exp |-> IF Truthy(expires_delta) THEN t + expires_delta[1] ELSE t,
     scope |-> "access_token", sig |-> TRUE]

\* Auth.create_access_token, called at clock reading t with data = {"sub": sub}.
create_access_token(sub, expires_delta, t) ==
    [sub |-> sub, iat |-> t,
     exp |-> IF Truthy(expires_delta) THEN t + expires_delta[1]
             ELSE t + AccessMinutes * 60,
     scope |-> "access_token", sig |-> TRUE]

\* create_refresh_token with a serial number in the payload: the count of
\* requests so far makes every token of a later request a new one.
create_refresh_token_serial(sub, expires_delta, t) ==
    [sub |-> sub, iat |-> t,
     exp |-> (IF Truthy(expires_delta) THEN t + expires_delta[1]
              ELSE t + RefreshDays * 86400) + arrivals,
     scope |-> "refresh_token", sig |-> TRUE]

\* Auth.create_refresh_token.
create_refresh_token(sub, expires_delta, t) ==
    [sub |-> sub, iat |-> t,
     exp |-> IF Truthy(expires_delta) THEN t + expires_delta[1]
             ELSE t + RefreshDays * 86400,
     scope |-> "refresh_token", sig |-> TRUE]

\* jwt.decode with verify_exp off: only the signature is checked.
JWTErrorSigOnly(token, t) == ~token.sig

\* jwt.decode raises JWTError: a bad signature, or exp before the clock
\* (jose: `if exp < now`).
JWTError(token, t) == ~token.sig \/ token.exp < t

\* get_current_user without its scope test.
AnyAccessScope(token) == TRUE

\* The scope test of get_current_user.
IsAccessScope(token) == token.scope = "access_token"

\* The try block reading the claims without verifying the token.
decode_access_token_unverified(token, t) ==
    IF IsAccessScope(token) THEN token.sub ELSE ""

\* get_current_user, the try block: the subject, or "" for
\* credentials_exception.
decode_access_token(token, t) ==
    IF JWTError(token, t) THEN ""
    ELSE IF IsAccessScope(token) THEN token.sub
    ELSE ""

\* decode_refresh_token without its scope test.
AnyScope(token) == TRUE

\* The scope test of decode_refresh_token.
IsRefreshScope(token) == token.scope = "refresh_token"

\* Auth.create_email_token, called at clock reading t with
\* data = {"sub": sub}: seven days, and no scope claim.
create_email_token(sub, t) ==
    [sub |-> sub, iat |-> t, exp |-> t + RefreshDays * 86400,
     scope |-> NoScope, sig |-> TRUE]

\* payload[claim] raises KeyError: the claim is not in the payload.  Only
\* JWTError is caught around it, so the exception leaves the handler.
KeyError(token, claim) ==
    IF claim = "scope" THEN token.scope = NoScope ELSE token.sub = NoSubject

\* decode_refresh_token that also wants a users row for the subject.
decode_refresh_token_known(token, t) ==
    IF JWTError(token, t) \/ token.sub \notin DOMAIN users
    THEN [email |-> "", detail |-> CredentialsException]
    ELSE IF IsRefreshScope(token) THEN [email |-> token.sub, detail |-> ""]
    ELSE [email |-> "", detail |-> InvalidScope]

\* Auth.decode_refresh_token: the subject, or the detail of the
\* HTTPException it raises, or ServerError for the KeyError of a missing
\* claim.
decode_refresh_token(token, t) ==
    IF JWTError(token, t) THEN [email |-> "", detail |-> CredentialsException]
    ELSE IF KeyError(token, "scope") THEN [email |-> "", detail |-> ServerError]
    ELSE IF IsRefreshScope(token)
         THEN IF KeyError(token, "sub") THEN [email |-> "", detail |-> ServerError]
              ELSE [email |-> token.sub, detail |-> ""]
    ELSE [email |-> "", detail |-> InvalidScope]

\* get_email_from_token accepting only what create_email_token makes: a
\* token without a scope claim.
get_email_from_token_scoped(token, t) ==
    IF JWTError(token, t) \/ token.scope # NoScope
    THEN [email |-> "", detail |-> InvalidEmailToken]
    ELSE IF KeyError(token, "sub") THEN [email |-> "", detail |-> ServerError]
    ELSE [email |-> token.sub, detail |-> ""]

\* Auth.get_email_from_token: the subject, whatever the scope, or the
\* detail of the 422 it raises.
get_email_from_token(token, t) ==
    IF JWTError(token, t) THEN [email |-> "", detail |-> InvalidEmailToken]
    ELSE IF KeyError(token, "sub") THEN [email |-> "", detail |-> ServerError]
    ELSE [email |-> token.sub, detail |-> ""]

\* ----------------------------------------------------------- user store
\* repository.users.get_user_by_email
get_user_by_email(email) == IF email \in DOMAIN users THEN users[email] ELSE NoUser

\* repository.users.get_user_username
get_user_username(username) ==
    IF \E e \in DOMAIN users : users[e].username = username
    THEN users[CHOOSE e \in DOMAIN users : users[e].username = username]
    ELSE NoUser

\* repository.users.update_token: the table afterwards.
update_token(user, refresh_token) ==
    IF refresh_token # NoToken
    THEN [users EXCEPT ![user.email].refresh_token = refresh_token]
    ELSE users

\* repository.users.change_password: the table afterwards.
change_password(user, password) == [users EXCEPT ![user.email].password = password]

\* repository.users.confirmed_email: the table afterwards.
confirmed_email(email) ==
    IF email \in DOMAIN users THEN [users EXCEPT ![email].confirmed = TRUE] ELSE users

\* repository.users.is_validate_token
is_validate_token(token) == token \in revoked

\* --------------------------------------------------------- redis cache
\* redis GET user:<email> at clock reading t: the pickled user, or NoUser.
CacheLive(email, t) ==
    /\ email \in DOMAIN cache
    /\ cache[email].present
    /\ (cache[email].expireAt = NoExpiry \/ t < cache[email].expireAt)

CacheGet(email, t) == IF CacheLive(email, t) THEN cache[email].user ELSE NoUser

\* redis SET under one key for every subject.
CacheSetShared(email, user_r) ==
    [e \in DOMAIN cache |-> [present |-> TRUE, user |-> user_r, expireAt |-> NoExpiry]]

\* redis SET user:<email> (no expiry given: any old time to live is dropped).
CacheSet(email, user_r) ==
    [cache EXCEPT ![email] = [present |-> TRUE, user |-> user_r, expireAt |-> NoExpiry]]

\* redis EXPIRE user:<email> 900 at clock reading t: only a live key gets it.
CacheExpire(email, t) ==
    IF CacheLive(email, t)
    THEN [cache EXCEPT ![email].expireAt = t + CacheTTL]
    ELSE cache

\* pickle.dumps(user): the cached copy of the row.  The refresh_token column
\* travels with it but no reader of the unpickled user looks at it; it is
\* left out of the copy.
pickle_dumps(user) == [user EXCEPT !.refresh_token = NoToken]

\* redis DEL user:<email>
CacheDelete(email) == [cache EXCEPT ![email] = NoEntry]

\* ------------------------------------------------------------- requests
NoPair == [access_token |-> NoToken, refresh_token |-> NoToken]

\* A free slot.  token: the bearer credential; arg: the username or e-mail
\* parameter; email, user, target, out: the handler's locals; t0: the clock
\* reading at which the token was decoded; hit: the identity came from the
\* cache; log: the store and cache writes of the route body, in order;
\* trail: the lookups get_current_user has awaited, in order;
\* marks: what had been reported to callers when the request arrived;
\* delta: the expires_delta of a direct call of the token service.
Idle == [op |-> "", pc |-> "idle", token |-> NoToken, arg |-> "",
         email |-> "", user |-> NoUser, target |-> NoUser, out |-> NoPair,
         res |-> "", t0 |-> -1, hit |-> FALSE, log |-> << >>, trail |-> << >>,
         marks |-> {}, delta |-> << >>]

InFlight(q) == reqs[q].pc \notin {"idle", "done"}

\* The handler returns or raises: the response carries res.
Finish(rec, res) == [rec EXCEPT !.pc = "done", !.res = res]

\* services.roles: the RoleAccess dependency of ban_user (admin_moderator).
admin_moderator(identity) == identity.roles \in {"admin", "moderator"}

\* services.roles: the RoleAccess dependency of change_role (admin).
admin(identity) == identity.roles = "admin"

\* get_current_user without the is_active tests.
IsBannedNever(user) == FALSE

\* `not user.is_active`, the test of get_current_user before the cache
\* write and again on the unpickled user.
IsBanned(user) == ~user.is_active

\* The routes behind get_current_user: ban_user, and "resolve" for every
\* route whose body touches neither the cache nor the users table.  The
\* dependency runs the same for all of them, so the route of a request is
\* drawn when get_current_user returns.
Routes == {"resolve", "ban"}

\* The routes behind get_current_user that change a user row without
\* banning: change_role and edit_my_profile (and "resolve" as above).
MutRoutes == {"resolve", "change_role", "edit"}

\* The routes of the administration of accounts and of the caller's own
\* record: ban_user, activate_user, read_users_me, all_users (and
\* "resolve" as above).
AdminRoutes == {"resolve", "ban", "activate", "me", "all_users"}

\* database.models.Role
RoleValues == {"admin", "moderator", "user"}

\* The name parameter of edit_my_profile ("" leaves the username alone).
EditNames == {"", "carol", "alice"}

\* The username parameter of change_role: the names a row can have.
RoleTargets == Usernames \cup {"carol"}

\* get_current_user has returned user_clean: the route body starts (for
\* ban_user after the role dependency).
Authorized(rec, user_clean, route) ==
    IF route = "ban"
    THEN IF admin_moderator(user_clean)
         THEN [rec EXCEPT !.op = route, !.pc = "ban_lookup", !.user = user_clean]
         ELSE Finish([rec EXCEPT !.op = route, !.user = user_clean], "Forbidden")
    ELSE IF route = "change_role"
    THEN IF admin(user_clean)
         THEN [rec EXCEPT !.op = route, !.pc = "role_lookup", !.user = user_clean]
         ELSE Finish([rec EXCEPT !.op = route, !.user = user_clean], "Forbidden")
    ELSE IF route = "edit"
    THEN [rec EXCEPT !.op = route, !.pc = "edit_lookup", !.user = user_clean]
    ELSE IF route = "activate"
    THEN IF admin(user_clean)
         THEN [rec EXCEPT !.op = route, !.pc = "activate_lookup", !.user = user_clean]
         ELSE Finish([rec EXCEPT !.op = route, !.user = user_clean], "Forbidden")
    ELSE IF route = "me"
    THEN [rec EXCEPT !.op = route, !.pc = "own_delete", !.user = user_clean]
    ELSE IF route = "all_users"
    THEN IF admin(user_clean)
         THEN [rec EXCEPT !.op = route, !.pc = "own_delete", !.user = user_clean]
         ELSE Finish([rec EXCEPT !.op = route, !.user = user_clean], "Forbidden")
    ELSE Finish([rec EXCEPT !.op = route, !.user = user_clean], "OK")

\* get_current_user, from pickle.loads to the return.
FinalCheck(rec, user_clean, route) ==
    IF IsBanned(user_clean) THEN Finish([rec EXCEPT !.user = user_clean], UserBanned)
    ELSE Authorized(rec, user_clean, route)

\* A request arrives.  The dependency get_current_user (or, for the refresh
\* route, decode_refresh_token) decodes the token before its first await.
StartRecord(op, token, arg) ==
    LET rec == [Idle EXCEPT !.op = op, !.token = token, !.arg = arg, !.t0 = now]
    IN  CASE op = "login" -> [rec EXCEPT !.pc = "login_db", !.t0 = -1]
          [] op = "refresh" ->
                LET d == decode_refresh_token(token, now)
                IN  IF d.detail # "" THEN Finish(rec, d.detail)
                    ELSE [rec EXCEPT !.pc = "refresh_db", !.email = d.email]
          [] op \in {"reset_password", "confirmed_email"} ->
                LET d == get_email_from_token(token, now)
                IN  IF d.detail # "" THEN Finish(rec, d.detail)
                    ELSE [rec EXCEPT !.email = d.email,
                            !.pc = IF op = "reset_password" THEN "reset_db"
                                   ELSE "confirm_db"]
          [] OTHER ->
                LET email == decode_access_token(token, now)
                IN  IF email = "" THEN Finish(rec, CredentialsException)
                    ELSE [rec EXCEPT !.pc = "gcu_revoked", !.email = email]

\* get_current_user without the test of invalid_token.
GcuRevokedSkip(r) ==
    /\ reqs[r].pc = "gcu_revoked"
    /\ reqs' = [reqs EXCEPT ![r].pc = "gcu_cache"]
    /\ UNCHANGED <<arrivals, now, past, users, cache, revoked, hist>>

\* get_current_user: `invalid_token = await is_validate_token(token, db)`.
GcuRevoked(r) ==
    /\ reqs[r].pc = "gcu_revoked"
    /\ LET rec == [reqs[r] EXCEPT !.trail = Append(@, "revocation")]
       IN  reqs' = [reqs EXCEPT ![r] =
                      IF is_validate_token(rec.token)
                      THEN Finish(rec, CredentialsException)
                      ELSE [rec EXCEPT !.pc = "gcu_cache"]]
    /\ UNCHANGED <<arrivals, now, past, users, cache, revoked, hist>>

\* get_current_user: `user_r = await redis.get(f"user:{email}")`; on a hit
\* the user is unpickled and checked at once.
GcuCacheGet(r, route) ==
    /\ reqs[r].pc = "gcu_cache"
    /\ LET user_r == CacheGet(reqs[r].email, now)
           rec == [reqs[r] EXCEPT !.trail = Append(@, "cache")]
       IN  reqs' = [reqs EXCEPT ![r] =
                      IF user_r = NoUser
                      THEN [rec EXCEPT !.pc = "gcu_db"]
                      ELSE FinalCheck([rec EXCEPT !.hit = TRUE], user_r, route)]
    /\ UNCHANGED <<arrivals, now, past, users, cache, revoked, hist>>

\* The miss branch without the is_active test before pickle.dumps.
GcuDbUnchecked(r) ==
    /\ reqs[r].pc = "gcu_db"
    /\ LET user == get_user_by_email(reqs[r].email)
           rec == [reqs[r] EXCEPT !.trail = Append(@, "store")]
       IN  reqs' = [reqs EXCEPT ![r] =
                      IF user = NoUser THEN Finish(rec, CredentialsException)
                      ELSE [rec EXCEPT !.pc = "gcu_set", !.user = pickle_dumps(user)]]
    /\ UNCHANGED <<arrivals, now, past, users, cache, revoked, hist>>

\* get_current_user on a miss: `user = await get_user_by_email(email, db)`
\* and the two tests before pickle.dumps.
GcuDb(r) ==
    /\ reqs[r].pc = "gcu_db"
    /\ LET user == get_user_by_email(reqs[r].email)
           rec == [reqs[r] EXCEPT !.trail = Append(@, "store")]
       IN  reqs' = [reqs EXCEPT ![r] =
                      IF user = NoUser THEN Finish(rec, CredentialsException)
                      ELSE IF IsBanned(user)
                           THEN Finish([rec EXCEPT !.user = user], UserBanned)
                           ELSE [rec EXCEPT !.pc = "gcu_set",
                                            !.user = pickle_dumps(user)]]
    /\ UNCHANGED <<arrivals, now, past, users, cache, revoked, hist>>

\* get_current_user: `await redis.set(f"user:{email}", user_r)`.
GcuSet(r) ==
    /\ reqs[r].pc = "gcu_set"
    /\ cache' = CacheSet(reqs[r].email, reqs[r].user)
    /\ reqs' = [reqs EXCEPT ![r].pc = "gcu_expire"]
    /\ UNCHANGED <<arrivals, now, past, users, revoked, hist>>

\* get_current_user: `await redis.expire(f"user:{email}", 900)`, then the
\* user is unpickled from the local user_r and checked.
GcuExpire(r, route) ==
    /\ reqs[r].pc = "gcu_expire"
    /\ cache' = CacheExpire(reqs[r].email, now)
    /\ reqs' = [reqs EXCEPT ![r] = FinalCheck(reqs[r], reqs[r].user, route)]
    /\ UNCHANGED <<arrivals, now, past, users, revoked, hist>>

\* The exception of a failed revocation or cache lookup is swallowed and
\* the call goes on as if the lookup had found nothing.
FailOpen(r) ==
    /\ reqs[r].pc \in {"gcu_revoked", "gcu_cache", "gcu_db", "gcu_set", "gcu_expire"}
    /\ reqs' = [reqs EXCEPT ![r] =
                  LET rec == [reqs[r] EXCEPT !.marks = @ \cup {"failed"}]
                  IN  CASE rec.pc = "gcu_revoked" -> [rec EXCEPT !.pc = "gcu_cache"]
                        [] rec.pc = "gcu_cache" -> [rec EXCEPT !.pc = "gcu_db"]
                        [] OTHER -> Finish(rec, ServerError)]
    /\ UNCHANGED <<arrivals, now, past, users, cache, revoked, hist>>

\* An await of get_current_user raises (the redis or database connection
\* fails, or the task is cancelled): the awaited call has no effect, no
\* handler catches the exception and the request ends.
Fail(r) ==
    /\ reqs[r].pc \in {"gcu_revoked", "gcu_cache", "gcu_db", "gcu_set", "gcu_expire"}
    /\ reqs' = [reqs EXCEPT ![r] =
                  Finish([reqs[r] EXCEPT !.marks = @ \cup {"failed"}], ServerError)]
    /\ UNCHANGED <<arrivals, now, past, users, cache, revoked, hist>>

\* ----------------------------------------------------------------- login
\* routes.auth.login up to the token pair: the user row is read and the
\* three tests made; the tokens are created at the clock reading of this step.
LoginDb(r, pw) ==
    /\ reqs[r].pc = "login_db"
    /\ LET user == get_user_by_email(reqs[r].arg)
       IN  reqs' = [reqs EXCEPT ![r] =
              IF user = NoUser THEN Finish(reqs[r], "Invalid email")
              ELSE IF ~user.confirmed THEN Finish(reqs[r], "Email not confirmed")
              ELSE IF ~pw THEN Finish(reqs[r], "Invalid password")
              ELSE [reqs[r] EXCEPT
                      !.pc = "login_update", !.user = user, !.email = user.email,
                      !.out = [access_token |-> create_access_token(user.email, << >>, now),
                               refresh_token |-> create_refresh_token(user.email, << >>, now)]]]
    /\ UNCHANGED <<arrivals, now, past, users, cache, revoked, hist>>

\* routes.auth.login: `await update_token(user, refresh_token, db)` and the
\* response with the pair.
LoginUpdate(r) ==
    /\ reqs[r].pc = "login_update"
    /\ users' = update_token(reqs[r].user, reqs[r].out.refresh_token)
    /\ reqs' = [reqs EXCEPT ![r] = Finish(reqs[r], "OK")]
    /\ hist' = [hist EXCEPT
                  !.superseded = @ \cup hist.handed[reqs[r].email],
                  !.handed[reqs[r].email] = @ \cup {reqs[r].out.refresh_token}]
    /\ UNCHANGED <<arrivals, now, past, cache, revoked>>

\* --------------------------------------------------------------- refresh
\* The test of refresh_token with an is_active test added.
TokenMismatchOrBanned(user, token) == user.refresh_token # token \/ ~user.is_active

\* routes.auth.refresh_token: is the presented token the stored one?
TokenMismatch(user, token) == user.refresh_token # token

\* routes.auth.refresh_token after decode_refresh_token: the user row is
\* read; on a mismatch update_token(user, None) runs and 401 is raised,
\* otherwise the new pair is created.
RefreshDb(r) ==
    /\ reqs[r].pc = "refresh_db"
    /\ LET user == get_user_by_email(reqs[r].email)
           pair == [access_token |-> create_access_token(reqs[r].email, << >>, now),
                    refresh_token |-> create_refresh_token(reqs[r].email, << >>, now)]
       IN  IF user # NoUser /\ TokenMismatch(user, reqs[r].token)
           THEN /\ users' = update_token(user, NoToken)
                /\ reqs' = [reqs EXCEPT ![r] =
                              Finish([reqs[r] EXCEPT !.user = user], InvalidRefreshToken)]
                /\ hist' = hist
           ELSE IF user # NoUser
           THEN /\ users' = users
                /\ reqs' = [reqs EXCEPT ![r] =
                              [reqs[r] EXCEPT !.pc = "refresh_update", !.user = user,
                                              !.out = pair]]
                /\ hist' = hist
           ELSE /\ users' = users
                /\ reqs' = [reqs EXCEPT ![r] = Finish([reqs[r] EXCEPT !.out = pair], "OK")]
                /\ hist' = [hist EXCEPT !.redeemed = @ \cup {reqs[r].token}]
    /\ UNCHANGED <<arrivals, now, past, cache, revoked>>

\* routes.auth.refresh_token: `await update_token(user, refresh_token, db)`
\* and the response with the pair.
RefreshUpdate(r) ==
    /\ reqs[r].pc = "refresh_update"
    /\ users' = update_token(reqs[r].user, reqs[r].out.refresh_token)
    /\ reqs' = [reqs EXCEPT ![r] =
                  Finish([reqs[r] EXCEPT !.marks = @ \cup
                            (IF reqs[r].token \in hist.redeemed
                             THEN {"redeemedAgain"} ELSE {})], "OK")]
    /\ hist' = [hist EXCEPT !.redeemed = @ \cup {reqs[r].token}]
    /\ UNCHANGED <<arrivals, now, past, cache, revoked>>

\* ------------------------------------------- reset_password, confirmed_email
ResetComplete == "Password reset complete!"
AlreadyConfirmed == "Your email is already confirmed"
EmailConfirmed == "Email confirmed"

\* The new_password parameter of reset_password.
NewPasswords == {"hunter2"}

\* routes.auth.reset_password after get_email_from_token:
\* `user = await get_user_by_email(email, db)`.
ResetDb(r) ==
    /\ reqs[r].pc = "reset_db"
    /\ LET user == get_user_by_email(reqs[r].email)
       IN  reqs' = [reqs EXCEPT ![r] =
                      IF user = NoUser THEN Finish(reqs[r], VerificationError)
                      ELSE [reqs[r] EXCEPT !.pc = "reset_persist", !.user = user]]
    /\ UNCHANGED <<arrivals, now, past, users, cache, revoked, hist>>

\* routes.auth.reset_password: the new password is hashed and
\* `user = await change_password(user, confirm_password, db)`.
ResetPersist(r) ==
    /\ reqs[r].pc = "reset_persist"
    /\ users' = change_password(reqs[r].user, get_password_hash(reqs[r].arg))
    /\ reqs' = [reqs EXCEPT ![r] = Finish(reqs[r], ResetComplete)]
    /\ UNCHANGED <<arrivals, now, past, cache, revoked, hist>>

\* routes.auth.confirmed_email after get_email_from_token:
\* `user = await get_user_by_email(email, db)` and the two tests.
ConfirmDb(r) ==
    /\ reqs[r].pc = "confirm_db"
    /\ LET user == get_user_by_email(reqs[r].email)
       IN  reqs' = [reqs EXCEPT ![r] =
                      IF user = NoUser THEN Finish(reqs[r], VerificationError)
                      ELSE IF user.confirmed
                           THEN Finish([reqs[r] EXCEPT !.user = user], AlreadyConfirmed)
                           ELSE [reqs[r] EXCEPT !.pc = "confirm_persist", !.user = user]]
    /\ UNCHANGED <<arrivals, now, past, users, cache, revoked, hist>>

\* routes.auth.confirmed_email: `await confirmed_email(email, db)`.
ConfirmPersist(r) ==
    /\ reqs[r].pc = "confirm_persist"
    /\ users' = confirmed_email(reqs[r].email)
    /\ reqs' = [reqs EXCEPT ![r] = Finish(reqs[r], EmailConfirmed)]
    /\ UNCHANGED <<arrivals, now, past, cache, revoked, hist>>

\* ------------------------------------------------ token service, directly
\* The expires_delta values of direct calls.
IssueDeltas == ExpiresDeltas \cup {<<CacheTTL>>}

\* create_access_token and create_refresh_token are called for subject sub
\* with expires_delta; the two tokens are the result.
Issue(r, sub, expires_delta) ==
    /\ reqs[r].pc = "idle"
    /\ arrivals < MaxArrivals
    /\ reqs' = [reqs EXCEPT ![r] =
                  Finish([Idle EXCEPT
                            !.op = "issue", !.email = sub, !.t0 = now,
                            !.delta = expires_delta,
                            !.out = [access_token |->
                                        create_access_token(sub, expires_delta, now),
                                     refresh_token |->
                                        create_refresh_token(sub, expires_delta, now)]],
                         "OK")]
    /\ arrivals' = arrivals + 1
    /\ UNCHANGED <<now, past, users, cache, revoked, hist>>

\* ------------------------------------------------------------------ ban
BannedDetail == "The user has been banned"

\* routes.users.ban_user: `user_banned = await get_user_username(username, db)`.
BanLookup(r, username) ==
    /\ reqs[r].pc = "ban_lookup"
    /\ LET user_banned == get_user_username(username)
       IN  reqs' = [reqs EXCEPT ![r] =
                      IF user_banned = NoUser THEN Finish(reqs[r], "User not found!")
                      ELSE [reqs[r] EXCEPT !.pc = "ban_delete", !.arg = username,
                                           !.target = user_banned]]
    /\ UNCHANGED <<arrivals, now, past, users, cache, revoked, hist>>

\* ban_user without the redis delete.
ban_user_keep(user_banned) == cache

\* routes.users.ban_user: `await redis_client.delete(key_to_clear)`.
ban_user_clear(user_banned) == CacheDelete(user_banned.email)

\* routes.users.ban_user: the cache entry of the subject is deleted, then
\* the two tests on the row read before.
BanDelete(r) ==
    /\ reqs[r].pc = "ban_delete"
    /\ LET user_banned == reqs[r].target
           rec == [reqs[r] EXCEPT
                     !.log = Append(@, "cache_delete"),
                     !.marks = @ \cup (IF CacheLive(user_banned.email, now)
                                          /\ cache[user_banned.email].user.is_active
                                       THEN {"hadCache"} ELSE {})]
       IN  /\ cache' = ban_user_clear(user_banned)
           /\ reqs' = [reqs EXCEPT ![r] =
                  IF user_banned.username = reqs[r].user.username
                  THEN Finish(rec, "You can't ban yourself")
                  ELSE IF ~user_banned.is_active
                       THEN Finish(rec, "User has already been banned")
                       ELSE [rec EXCEPT !.pc = "ban_persist"]]
           /\ hist' = [hist EXCEPT !.freshDelete[user_banned.email] = TRUE]
    /\ UNCHANGED <<arrivals, now, past, users, revoked>>

\* repository.users.ban_user(email, db): the row is marked inactive and
\* committed.
ban_user(email) == [users EXCEPT ![email].is_active = FALSE]

\* routes.users.ban_user: `user = await repository_users.ban_user(...)`.
BanPersist(r) ==
    /\ reqs[r].pc = "ban_persist"
    /\ users' = ban_user(reqs[r].target.email)
    /\ reqs' = [reqs EXCEPT ![r].pc = "ban_return", ![r].log = Append(@, "persist")]
    /\ UNCHANGED <<arrivals, now, past, cache, revoked, hist>>

\* routes.users.ban_user: the response "The user ... has been banned".
BanReturn(r) ==
    /\ reqs[r].pc = "ban_return"
    /\ reqs' = [reqs EXCEPT ![r] = Finish(reqs[r], BannedDetail)]
    /\ hist' = [hist EXCEPT
                  !.banReported[reqs[r].target.email] = TRUE,
                  !.lastBan = IF "hadCache" \in reqs[r].marks
                              THEN reqs[r].target.email ELSE ""]
    /\ UNCHANGED <<arrivals, now, past, users, cache, revoked>>

\* -------------------------------------------------------- activate_user
ActivatedDetail == "The user has been activated"

\* routes.users.activate_user:
\* `user_activate = await get_user_username(username, db)`.
ActivateLookup(r, username) ==
    /\ reqs[r].pc = "activate_lookup"
    /\ LET user_activate == get_user_username(username)
       IN  reqs' = [reqs EXCEPT ![r] =
                      IF user_activate = NoUser THEN Finish(reqs[r], "User not found!")
                      ELSE [reqs[r] EXCEPT !.pc = "activate_persist", !.arg = username,
                                           !.target = user_activate]]
    /\ UNCHANGED <<arrivals, now, past, users, cache, revoked, hist>>

\* repository.users.activate_user(email, db): the row is marked active and
\* committed.
activate_user(email) == [users EXCEPT ![email].is_active = TRUE]

\* activate_user without the repository call.
ActivatePersistSkip(r) ==
    /\ reqs[r].pc = "activate_persist"
    /\ reqs' = [reqs EXCEPT ![r].pc = "activate_return"]
    /\ UNCHANGED <<arrivals, now, past, users, cache, revoked, hist>>

\* routes.users.activate_user:
\* `user = await repository_users.activate_user(user_activate.email, db)`.
ActivatePersist(r) ==
    /\ reqs[r].pc = "activate_persist"
    /\ users' = activate_user(reqs[r].target.email)
    /\ reqs' = [reqs EXCEPT ![r].pc = "activate_return"]
    /\ UNCHANGED <<arrivals, now, past, cache, revoked, hist>>

\* routes.users.activate_user: the response "The user ... has been
\* activated".
ActivateReturn(r) ==
    /\ reqs[r].pc = "activate_return"
    /\ reqs' = [reqs EXCEPT ![r] = Finish(reqs[r], ActivatedDetail)]
    /\ hist' = [hist EXCEPT
                  !.lastActivated = IF reqs[r].target.is_active THEN ""
                                    ELSE reqs[r].target.email]
    /\ UNCHANGED <<arrivals, now, past, users, cache, revoked>>

\* ----------------------------------------------- read_users_me, all_users
\* The routes without the redis delete.
key_to_clear_keep(current_user) == cache

\* routes.users.read_users_me and all_users:
\* `await redis_client.delete(key_to_clear)` with the caller's own key.
key_to_clear_delete(current_user) == CacheDelete(current_user.email)

\* read_users_me, all_users: the caller's cache entry is deleted;
\* read_users_me then returns the caller.
OwnDelete(r) ==
    /\ reqs[r].pc = "own_delete"
    /\ cache' = key_to_clear_delete(reqs[r].user)
    /\ reqs' = [reqs EXCEPT ![r] =
                  LET rec == [reqs[r] EXCEPT !.log = Append(@, "cache_delete")]
                  IN  IF rec.op = "me" THEN Finish(rec, "OK")
                      ELSE [rec EXCEPT !.pc = "all_list"]]
    /\ hist' = [hist EXCEPT !.selfCleared[reqs[r].user.email] = TRUE]
    /\ UNCHANGED <<arrivals, now, past, users, revoked>>

\* routes.users.all_users: `users = await get_all_users(skip, limit, db)`
\* and the response with the list.
AllUsersList(r) ==
    /\ reqs[r].pc = "all_list"
    /\ reqs' = [reqs EXCEPT ![r] = Finish(reqs[r], "OK")]
    /\ UNCHANGED <<arrivals, now, past, users, cache, revoked, hist>>

\* ---------------------------------------------------------- change_role
RoleChanged == "The user's role has been changed"

\* routes.users.change_role: `user = await get_user_username(username, db)`
\* and the tests on the row.
RoleLookup(r, username) ==
    /\ reqs[r].pc = "role_lookup"
    /\ LET user == get_user_username(username)
       IN  reqs' = [reqs EXCEPT ![r] =
              IF user = NoUser THEN Finish(reqs[r], "User not found!")
              ELSE IF ~(user.is_active /\ user.confirmed)
              THEN Finish(reqs[r], "You can't change the role of a banned user or not confirmed")
              ELSE IF reqs[r].user.username = user.username
              THEN Finish(reqs[r], "You can't change your role")
              ELSE [reqs[r] EXCEPT !.pc = "role_persist", !.arg = username,
                                   !.target = user]]
    /\ UNCHANGED <<arrivals, now, past, users, cache, revoked, hist>>

\* repository.users.change_role(email, role, db): the role is stored and
\* committed.
change_role(email, role) == [users EXCEPT ![email].roles = role]

\* routes.users.change_role: `user = await repository_users.change_role(...)`.
RolePersist(r, role) ==
    /\ reqs[r].pc = "role_persist"
    /\ users' = change_role(reqs[r].target.email, role)
    /\ reqs' = [reqs EXCEPT ![r].pc = "role_return"]
    /\ UNCHANGED <<arrivals, now, past, cache, revoked, hist>>

\* routes.users.change_role: the response "The user's role has been changed".
RoleReturn(r) ==
    /\ reqs[r].pc = "role_return"
    /\ reqs' = [reqs EXCEPT ![r] = Finish(reqs[r], RoleChanged)]
    /\ UNCHANGED <<arrivals, now, past, users, cache, revoked, hist>>

\* ------------------------------------------------------ edit_my_profile
ProfileEdited == "My profile was successfully edited"

\* routes.users.edit_my_profile: `user_exist = await get_user_username(name, db)`.
EditLookup(r, name) ==
    /\ reqs[r].pc = "edit_lookup"
    /\ reqs' = [reqs EXCEPT ![r] =
                  IF get_user_username(name) # NoUser
                  THEN Finish(reqs[r], "User with this name already exists!")
                  ELSE [reqs[r] EXCEPT !.pc = "edit_persist", !.arg = name]]
    /\ UNCHANGED <<arrivals, now, past, users, cache, revoked, hist>>

\* repository.users.edit_my_profile(email, file, name, db): the username is
\* replaced when a name is given, the uploaded picture becomes the avatar,
\* and the row is committed.
edit_my_profile(email, name) ==
    IF email \in DOMAIN users
    THEN [users EXCEPT ![email].username = IF name # "" THEN name ELSE @,
                       ![email].avatar = "cloudinary"]
    ELSE users

\* routes.users.edit_my_profile: `user = await repository_users.edit_my_profile(...)`.
EditPersist(r) ==
    /\ reqs[r].pc = "edit_persist"
    /\ users' = edit_my_profile(reqs[r].user.email, reqs[r].arg)
    /\ reqs' = [reqs EXCEPT ![r].pc = "edit_return"]
    /\ UNCHANGED <<arrivals, now, past, cache, revoked, hist>>

\* routes.users.edit_my_profile: the response.
EditReturn(r) ==
    /\ reqs[r].pc = "edit_return"
    /\ reqs' = [reqs EXCEPT ![r] = Finish(reqs[r], ProfileEdited)]
    /\ UNCHANGED <<arrivals, now, past, users, cache, revoked, hist>>

\* ------------------------------------------------------ clock, revocation
\* Time passes; redis drops the keys whose time to live has run out.
Tick(d, bound) ==
    /\ Cardinality(past) <= bound
    /\ now' = now + d
    /\ past' = past \cup {now + d}
    /\ cache' = [e \in DOMAIN cache |->
                   IF cache[e].present /\ cache[e].expireAt # NoExpiry
                      /\ cache[e].expireAt <= now + d
                   THEN NoEntry ELSE cache[e]]
    /\ UNCHANGED <<arrivals, users, revoked, reqs, hist>>

\* repository.users.invalidate_token: the token is put on the list that
\* is_validate_token reads (logout, a route behind get_current_user).
Revoke(token) ==
    /\ arrivals < MaxArrivals
    /\ decode_access_token(token, now) # ""
    /\ token \notin revoked
    /\ revoked' = revoked \cup {token}
    /\ arrivals' = arrivals + 1
    /\ hist' = [hist EXCEPT !.lastBan = "", !.lastActivated = ""]
    /\ UNCHANGED <<now, past, users, cache, reqs>>

\* ------------------------------------------------------------- arrivals
\* A bearer string that is not a JWT.
Malformed == [NoToken EXCEPT !.scope = "not a JWT"]

\* The tokens a client can hold: what create_access_token and
\* create_refresh_token returned at some clock reading so far.
IssuedAt(times, deltas) ==
    {create_access_token(s, d, t) : s \in Emails, d \in deltas, t \in times}
    \cup {create_refresh_token(s, d, t) : s \in Emails, d \in deltas, t \in times}

\* The same with the signature broken.
Forged == {[tk EXCEPT !.sig = FALSE] : tk \in IssuedAt(past, {<< >>})}

AllTokens == IssuedAt(past, ExpiresDeltas) \cup Forged
DefaultTokens == IssuedAt(past, {<< >>})

\* What create_email_token returned at some clock reading so far.
EmailTokens == {create_email_token(s, t) : s \in Emails \cup {NoSubject}, t \in past}

\* Refresh tokens of subjects without a users row.
StrayRefresh ==
    {create_refresh_token(s, << >>, t) : s \in {NoSubject, UnknownEmail}, t \in past}

\* Every kind of token the refresh route and the e-mail links can be handed.
LinkTokens == AllTokens \cup {Malformed} \cup EmailTokens \cup StrayRefresh

\* Every kind of bearer get_current_user can be handed.
GateTokens ==
    AllTokens \cup {Malformed}
    \cup {create_access_token(s, << >>, t) : s \in {NoSubject, UnknownEmail}, t \in past}

\* What had been reported for subject email when a request resolving it
\* arrives.
ArrivalMarks(email) ==
    IF email \notin Emails THEN {}
    ELSE (IF hist.lastBan = email THEN {"afterBan"} ELSE {})
         \cup (IF hist.banReported[email] THEN {"afterBanReport"} ELSE {})
         \cup (IF hist.freshDelete[email] THEN {"afterDelete"} ELSE {})
         \cup (IF hist.lastActivated = email THEN {"afterActivate"} ELSE {})
         \cup (IF hist.selfCleared[email] THEN {"afterOwnDelete"} ELSE {})

\* A request arrives in the lowest free slot.
Start(r, op, token, arg) ==
    /\ reqs[r].pc = "idle"
    /\ arrivals < MaxArrivals
    /\ \A q \in Slots : q < r => reqs[q].pc # "idle"
    /\ LET base == StartRecord(op, token, arg)
           resolving == base.pc = "gcu_revoked"
           rec == [base EXCEPT !.marks =
                     IF resolving THEN ArrivalMarks(base.email)
                     ELSE IF op = "refresh"
                     THEN (IF token \in hist.redeemed THEN {"replay"} ELSE {})
                          \cup (IF token \in hist.superseded THEN {"superseded"} ELSE {})
                     ELSE {}]
       IN  /\ reqs' = [reqs EXCEPT ![r] = rec]
           /\ hist' = [hist EXCEPT
                         !.lastBan = "",
                         !.lastActivated = "",
                         !.freshDelete = IF resolving /\ base.email \in Emails
                                         THEN [@ EXCEPT ![base.email] = FALSE]
                                         ELSE @,
                         !.selfCleared = IF resolving /\ base.email \in Emails
                                         THEN [@ EXCEPT ![base.email] = FALSE]
                                         ELSE @]
    /\ arrivals' = arrivals + 1
    /\ UNCHANGED <<now, past, users, cache, revoked>>

Arrive(r, tokens) ==
    \/ \E token \in tokens : Start(r, "protected", token, "")
    \/ \E token \in tokens : Start(r, "refresh", token, "")
    \/ \E email \in Emails : Start(r, "login", NoToken, email)

Step(r) ==
    \/ GcuRevoked(r) \/ GcuDb(r) \/ GcuSet(r)
    \/ \E route \in Routes : GcuCacheGet(r, route)
    \/ \E route \in Routes : GcuExpire(r, route)
    \/ \E pw \in BOOLEAN : LoginDb(r, pw)
    \/ LoginUpdate(r)
    \/ RefreshDb(r) \/ RefreshUpdate(r)
    \/ \E username \in Usernames : BanLookup(r, username)
    \/ BanDelete(r) \/ BanPersist(r) \/ BanReturn(r)

\* The response leaves; the slot is free again.
Respond(r) ==
    /\ reqs[r].pc = "done"
    /\ reqs' = [reqs EXCEPT ![r] = Idle]
    /\ UNCHANGED <<arrivals, now, past, users, cache, revoked, hist>>

\* No response is waiting to leave: a response leaves before anything else
\* happens.
Quiet == \A q \in Slots : reqs[q].pc # "done"

\* Nothing has been reported to any caller yet.
InitHist == [redeemed |-> {}, superseded |-> {}, handed |-> [e \in Emails |-> {}],
             lastBan |-> "", banReported |-> [e \in Emails |-> FALSE],
             freshDelete |-> [e \in Emails |-> FALSE],
             lastActivated |-> "", selfCleared |-> [e \in Emails |-> FALSE]]

Init ==
    /\ now = 0
    /\ arrivals = 0
    /\ past = {0}
    /\ users = InitUsers
    /\ cache = [e \in Emails |-> NoEntry]
    /\ revoked = {}
    /\ reqs = [r \in Slots |-> Idle]
    /\ hist = InitHist

\* Requests interleave at their awaits.
Next ==
    \/ Quiet /\ \E d \in TickSteps : Tick(d, MaxTicksConc)
    \/ Quiet /\ \E token \in DefaultTokens : Revoke(token)
    \/ Quiet /\ \E r \in Slots : Arrive(r, DefaultTokens)
    \/ Quiet /\ \E r \in Slots : Step(r)
    \/ \E r \in Slots : Respond(r)

Spec == Init /\ [][Next]_vars

\* One request at a time, each run from its arrival to its response.
NextSeq ==
    \/ Quiet /\ \E d \in TickSteps : Tick(d, MaxTicks)
    \/ reqs[1].pc = "idle" /\ \E token \in AllTokens : Revoke(token)
    \/ Arrive(1, AllTokens)
    \/ Step(1)
    \/ Respond(1)

SpecSeq == Init /\ [][NextSeq]_vars

\* The steps of a request behind get_current_user on one of MutRoutes.
StepMut(r) ==
    \/ GcuRevoked(r) \/ GcuDb(r) \/ GcuSet(r)
    \/ \E route \in MutRoutes : GcuCacheGet(r, route)
    \/ \E route \in MutRoutes : GcuExpire(r, route)
    \/ \E username \in RoleTargets : RoleLookup(r, username)
    \/ \E role \in RoleValues : RolePersist(r, role)
    \/ RoleReturn(r)
    \/ \E name \in EditNames : EditLookup(r, name)
    \/ EditPersist(r) \/ EditReturn(r)

\* One request at a time, on the routes that change roles and profiles.
NextMut ==
    \/ Quiet /\ \E d \in TickSteps : Tick(d, MaxTicksConc)
    \/ \E token \in DefaultTokens : Start(1, "protected", token, "")
    \/ StepMut(1)
    \/ Respond(1)

SpecMut == Init /\ [][NextMut]_vars

\* The users table with bob active or on the ban list.
InitAdmin ==
    /\ now = 0
    /\ arrivals = 0
    /\ past = {0}
    /\ \E a \in BOOLEAN : users = [InitUsers EXCEPT !["bob@example.com"].is_active = a]
    /\ cache = [e \in Emails |-> NoEntry]
    /\ revoked = {}
    /\ reqs = [r \in Slots |-> Idle]
    /\ hist = InitHist

\* The steps of a request behind get_current_user on one of AdminRoutes.
StepAdmin(r) ==
    \/ GcuRevoked(r) \/ GcuDb(r) \/ GcuSet(r)
    \/ \E route \in AdminRoutes : GcuCacheGet(r, route)
    \/ \E route \in AdminRoutes : GcuExpire(r, route)
    \/ \E username \in Usernames : BanLookup(r, username)
    \/ BanDelete(r) \/ BanPersist(r) \/ BanReturn(r)
    \/ \E username \in Usernames : ActivateLookup(r, username)
    \/ ActivatePersist(r) \/ ActivateReturn(r)
    \/ OwnDelete(r) \/ AllUsersList(r)

\* One request at a time, on the routes that ban and activate users and
\* that show the caller's own record.
NextAdmin ==
    \/ Quiet /\ \E d \in TickSteps : Tick(d, MaxTicksConc)
    \/ \E token \in DefaultTokens : Start(1, "protected", token, "")
    \/ StepAdmin(1)
    \/ Respond(1)

SpecAdmin == InitAdmin /\ [][NextAdmin]_vars

\* The users table with bob's e-mail address not yet confirmed or confirmed.
InitLinks ==
    /\ now = 0
    /\ arrivals = 0
    /\ past = {0}
    /\ \E c \in BOOLEAN : users = [InitUsers EXCEPT !["bob@example.com"].confirmed = c]
    /\ cache = [e \in Emails |-> NoEntry]
    /\ revoked = {}
    /\ reqs = [r \in Slots |-> Idle]
    /\ hist = InitHist

\* The steps of the routes that take a token but not through
\* get_current_user.
StepLinks(r) ==
    \/ \E pw \in BOOLEAN : LoginDb(r, pw)
    \/ LoginUpdate(r)
    \/ RefreshDb(r) \/ RefreshUpdate(r)
    \/ ResetDb(r) \/ ResetPersist(r)
    \/ ConfirmDb(r) \/ ConfirmPersist(r)

\* One request at a time on login, refresh, reset_password and
\* confirmed_email, with any token, and direct calls of the token service.
NextLinks ==
    \/ Quiet /\ \E d \in TickSteps : Tick(d, MaxTicksConc)
    \/ \E token \in LinkTokens : Start(1, "refresh", token, "")
    \/ \E token \in LinkTokens, pw \in NewPasswords : Start(1, "reset_password", token, pw)
    \/ \E token \in LinkTokens : Start(1, "confirmed_email", token, "")
    \/ \E email \in Emails : Start(1, "login", NoToken, email)
    \/ \E sub \in Emails, d \in IssueDeltas : Issue(1, sub, d)
    \/ StepLinks(1)
    \/ Respond(1)

SpecLinks == InitLinks /\ [][NextLinks]_vars

\* The steps of a request on a route that only resolves the caller.
StepGate(r) ==
    \/ GcuRevoked(r) \/ GcuDb(r) \/ GcuSet(r)
    \/ GcuCacheGet(r, "resolve")
    \/ GcuExpire(r, "resolve")

\* One request at a time through get_current_user, with any bearer, and
\* with awaits that can fail.
NextGate ==
    \/ Quiet /\ \E d \in TickSteps : Tick(d, MaxTicks)
    \/ reqs[1].pc = "idle" /\ \E token \in GateTokens : Revoke(token)
    \/ \E token \in GateTokens : Start(1, "protected", token, "")
    \/ StepGate(1)
    \/ Fail(1)
    \/ Respond(1)

SpecGate == Init /\ [][NextGate]_vars

\* ------------------------------------------------------------ properties
\* get_current_user has returned a user for the request in slot r.
Returned(r) == reqs[r].op \in Routes \cup MutRoutes \cup AdminRoutes

\* The request in slot r went through get_current_user.
Protected(r) == reqs[r].op \in Routes \cup MutRoutes \cup AdminRoutes \cup {"protected"}

Done(r) == reqs[r].pc = "done"

\* C1: in a sequential run, a refresh token whose refresh has succeeded
\* before is rejected with "Invalid refresh token" and gets no token pair.
C1_ReplayRejected ==
    \A r \in Slots :
        (Done(r) /\ reqs[r].op = "refresh" /\ "replay" \in reqs[r].marks)
            => (reqs[r].res = InvalidRefreshToken /\ reqs[r].out = NoPair)

\* C2: a cache entry with is_active = true exists for a user and ban_user
\* reports the ban; the very next request, made with that user's valid and
\* unrevoked access token, ends with "The user is on the ban list".
C2_BanThenBanned ==
    \A r \in Slots :
        (Done(r) /\ "afterBan" \in reqs[r].marks /\ reqs[r].token \notin revoked)
            => (reqs[r].res = UserBanned /\ ~Returned(r))

C2_Witness ==
    \E r \in Slots :
        /\ Done(r) /\ "afterBan" \in reqs[r].marks
        /\ reqs[r].token \notin revoked
        /\ reqs[r].res = UserBanned

\* C3: a get_current_user call that starts after ban_user has reported the
\* ban of its subject never returns a user, whatever the interleaving.
C3_NoUserAfterBanReport ==
    \A r \in Slots : "afterBanReport" \in reqs[r].marks => ~Returned(r)

\* C4: a ban_user request that reports the ban has first persisted it and
\* then deleted the cache entry, in that order.
C4_PersistThenDelete ==
    \A r \in Slots :
        (Done(r) /\ reqs[r].res = BannedDetail)
            => reqs[r].log = <<"persist", "cache_delete">>

\* C5: get_current_user never returns a user whose is_active is false;
\* when the user it resolved is inactive it raises "The user is on the ban
\* list".
C5_InactiveIsBanned ==
    \A r \in Slots :
        /\ Returned(r) => reqs[r].user.is_active
        /\ (Done(r) /\ reqs[r].op = "protected" /\ reqs[r].user # NoUser
                /\ ~reqs[r].user.is_active)
              => reqs[r].res = UserBanned

C5_Witness ==
    \E r \in Slots :
        /\ Done(r) /\ reqs[r].op = "protected"
        /\ reqs[r].user # NoUser /\ ~reqs[r].user.is_active
        /\ reqs[r].res = UserBanned

\* The lifetime create_access_token is asked for: expires_delta seconds, or
\* the 15 minutes of a call without one.
Lifetime(expires_delta) ==
    IF expires_delta = << >> THEN AccessMinutes * 60 ELSE expires_delta[1]

\* C6: the token create_access_token made for subject s at clock reading t
\* is decoded by get_current_user to s at every clock reading before t plus
\* its lifetime; when s is an active user and the token is not revoked,
\* get_current_user returns the user s.
C6_AccessRoundTrip ==
    \A s \in Emails, d \in ExpiresDeltas, t \in past, r \in Slots :
        (/\ Protected(r)
         /\ reqs[r].token = create_access_token(s, d, t)
         /\ reqs[r].t0 < t + Lifetime(d))
            => /\ reqs[r].email = s
               /\ (Done(r) /\ users[s].is_active /\ reqs[r].token \notin revoked)
                     => (Returned(r) /\ reqs[r].user.email = s)

C6_Witness ==
    \E s \in Emails, t \in past, r \in Slots :
        /\ Done(r) /\ Returned(r)
        /\ reqs[r].token = create_access_token(s, <<1>>, t)
        /\ reqs[r].t0 = t
        /\ reqs[r].user.email = s

\* What create_refresh_token and create_access_token have returned so far.
IssuedRefresh ==
    {create_refresh_token(s, d, t) : s \in Emails, d \in ExpiresDeltas, t \in past}

IssuedAccess ==
    {create_access_token(s, d, t) : s \in Emails, d \in ExpiresDeltas, t \in past}

\* C7: get_current_user rejects every token create_refresh_token issued
\* (credentials error, no user), and decode_refresh_token rejects every
\* token create_access_token issued, so the refresh route ends without a
\* token pair.
C7_ScopesSeparate ==
    \A r \in Slots :
        /\ (Protected(r) /\ reqs[r].token \in IssuedRefresh)
              => (Done(r) /\ ~Returned(r) /\ reqs[r].res = CredentialsException)
        /\ (reqs[r].op = "refresh" /\ reqs[r].token \in IssuedAccess)
              => /\ Done(r)
                 /\ reqs[r].res \in {InvalidScope, CredentialsException}
                 /\ reqs[r].out = NoPair

C7_Witness ==
    \E r \in Slots :
        /\ Done(r) /\ reqs[r].op = "refresh"
        /\ reqs[r].token \in IssuedAccess
        /\ reqs[r].res = InvalidScope

\* C8: a request whose token has exp before the clock reading at which it
\* is decoded ends with the credentials error, without a user and without
\* a token pair, on get_current_user and on the refresh route alike and
\* whatever the token's signature, scope and subject; an access token of
\* lifetime 1 second is rejected 2 seconds after its issue.
C8_ExpiredRejected ==
    \A r \in Slots :
        /\ (reqs[r].op \in Routes \cup {"protected", "refresh"}
                /\ reqs[r].token.exp < reqs[r].t0)
              => /\ Done(r) /\ ~Returned(r)
                 /\ reqs[r].res = CredentialsException
                 /\ reqs[r].out = NoPair
        /\ \A s \in Emails, t \in past :
              (/\ Protected(r)
               /\ reqs[r].token = create_access_token(s, <<1>>, t)
               /\ reqs[r].t0 = t + 2)
                  => (Done(r) /\ reqs[r].res = CredentialsException)

C8_Witness ==
    \E s \in Emails, t \in past, r \in Slots :
        /\ Done(r) /\ reqs[r].op = "protected"
        /\ reqs[r].token = create_access_token(s, <<1>>, t)
        /\ reqs[r].t0 = t + 2
        /\ reqs[r].res = CredentialsException

\* C9: the first get_current_user call for a subject that starts after the
\* subject's cache entry was deleted does not take the user from the cache,
\* whatever other calls for the subject are in flight.
C9_FreshReadAfterDelete ==
    \A r \in Slots : "afterDelete" \in reqs[r].marks => ~reqs[r].hit

\* C10: a refresh token handed out by a login of a user, presented to the
\* refresh route after a later login of that user has succeeded, is not
\* accepted: the request gets no token pair.
C10_SupersededRejected ==
    \A r \in Slots :
        (Done(r) /\ reqs[r].op = "refresh" /\ "superseded" \in reqs[r].marks)
            => (reqs[r].res # "OK" /\ reqs[r].out = NoPair)

C12_ProfileFreshAfterEdit ==
    \A r \in Slots :
        /\ (Done(r) /\ reqs[r].res = ProfileEdited)
              => ~CacheLive(reqs[r].email, now)
        /\ (Done(r) /\ reqs[r].op = "resolve")
              => /\ reqs[r].user.username = users[reqs[r].email].username
                 /\ reqs[r].user.avatar = users[reqs[r].email].avatar

\* C13: an access token with a good signature and exp not yet passed that
\* is on the revocation list is rejected by get_current_user with the
\* credentials error and no user, also when a live cache entry for its
\* subject exists.
C13_RevokedRejected ==
    \A r \in Slots :
        (/\ Protected(r)
         /\ ~JWTError(reqs[r].token, reqs[r].t0)
         /\ IsAccessScope(reqs[r].token)
         /\ reqs[r].token \in revoked
         /\ reqs[r].pc # "gcu_revoked")
            => /\ Done(r) /\ ~Returned(r)
               /\ reqs[r].res = CredentialsException
               /\ ~reqs[r].hit

C13_Witness ==
    \E r \in Slots :
        /\ Done(r) /\ reqs[r].op = "protected"
        /\ ~JWTError(reqs[r].token, reqs[r].t0)
        /\ IsAccessScope(reqs[r].token)
        /\ reqs[r].token \in revoked
        /\ CacheLive(reqs[r].token.sub, now)
        /\ cache[reqs[r].token.sub].user.is_active
        /\ reqs[r].res = CredentialsException

\* The request in slot r did not end by a connection failure.
Unfailed(r) == "failed" \notin reqs[r].marks

\* C14: whatever makes get_current_user reject a token for lack of
\* credentials (not a JWT, bad signature, expired, wrong scope, no sub,
\* revoked, no users row for the subject), the response is the same 401
\* "Could not validate credentials" and no user is returned.
C14_OneRejection ==
    \A r \in Slots :
        /\ (Protected(r)
                /\ (\/ JWTError(reqs[r].token, reqs[r].t0)
                    \/ reqs[r].token.scope # "access_token"
                    \/ reqs[r].token.sub = NoSubject))
              => (Done(r) /\ ~Returned(r) /\ reqs[r].res = CredentialsException)
        /\ (Protected(r) /\ Done(r) /\ Unfailed(r)
                /\ (\/ reqs[r].token \in revoked
                    \/ reqs[r].token.sub \notin DOMAIN users))
              => (~Returned(r) /\ reqs[r].res = CredentialsException)

C14_Witness ==
    \E r \in Slots :
        /\ Done(r) /\ reqs[r].op = "protected" /\ Unfailed(r)
        /\ reqs[r].token.sub = UnknownEmail
        /\ reqs[r].token \notin revoked
        /\ reqs[r].trail = <<"revocation", "cache", "store">>
        /\ reqs[r].res = CredentialsException

\* C15: when the refresh route has rejected a decodable refresh token with
\* "Invalid refresh token", the user's stored refresh token has been
\* cleared.
C15_MismatchRevokes ==
    \A r \in Slots :
        (Done(r) /\ reqs[r].op = "refresh" /\ reqs[r].res = InvalidRefreshToken)
            => users[reqs[r].email].refresh_token = NoToken

\* C16: no refresh token is redeemed twice: a refresh request never
\* succeeds with a token that an earlier refresh request has succeeded
\* with, whether the two ran one after the other or side by side.
C16_OneRedemption ==
    \A r \in Slots : "redeemedAgain" \notin reqs[r].marks

\* C17: every cache entry has a time to live of at most 900 seconds, in
\* every state in which no get_current_user call stands between writing
\* the entry and setting its expiry, the states left by failed or
\* cancelled requests included.
C17_BoundedTTL ==
    \A e \in Emails :
        (/\ cache[e].present
         /\ ~\E r \in Slots : reqs[r].pc = "gcu_expire" /\ reqs[r].email = e)
            => /\ cache[e].expireAt # NoExpiry
               /\ cache[e].expireAt <= now + CacheTTL

\* C18: for a subject whose row has not been changed (never banned; where
\* requests interleave, the ban is the only change of a row besides the
\* stored refresh token), every get_current_user call that returns, returns
\* the snapshot of the current row, and the cache entry, whichever call
\* wrote it last, is that snapshot too.
C18_ConcurrentPopulation ==
    \A e \in Emails :
        users[e].is_active
            => /\ cache[e].present => cache[e].user = pickle_dumps(users[e])
               /\ \A r \in Slots :
                     (Returned(r) /\ reqs[r].email = e)
                         => reqs[r].user = pickle_dumps(users[e])

C18_Witness ==
    \E e \in Emails :
        /\ users[e].is_active
        /\ cache[e].present
        /\ \A r \in Slots :
              /\ reqs[r].email = e
              /\ reqs[r].pc = "gcu_expire"
              /\ ~reqs[r].hit

\* The lookups of get_current_user in the order of its code.
GateOrder == <<"revocation", "cache", "store">>

IsPrefix(s, t) == Len(s) <= Len(t) /\ \A i \in 1..Len(s) : s[i] = t[i]

\* C19: one get_current_user call decodes, then asks the revocation list,
\* then the cache, then (on a miss) the user store, then tests is_active.
\* A token that fails decoding is rejected before any lookup; a revoked
\* token is rejected after the revocation lookup alone, with the
\* credentials error also when its subject is banned; a user is returned,
\* or the ban error raised, only after revocation and cache lookups.
C19_GateOrder ==
    \A r \in Slots :
        /\ IsPrefix(reqs[r].trail, GateOrder)
        /\ (Protected(r)
                /\ (JWTError(reqs[r].token, reqs[r].t0)
                       \/ reqs[r].token.scope # "access_token"))
              => (Done(r) /\ reqs[r].res = CredentialsException
                    /\ reqs[r].trail = << >>)
        /\ (Protected(r)
                /\ ~JWTError(reqs[r].token, reqs[r].t0)
                /\ reqs[r].token.scope = "access_token"
                /\ reqs[r].token \in revoked
                /\ reqs[r].pc # "gcu_revoked")
              => (Done(r) /\ reqs[r].res = CredentialsException
                    /\ reqs[r].trail = <<"revocation">>)
        /\ (Returned(r) \/ reqs[r].res = UserBanned) => Len(reqs[r].trail) >= 2

C19_Witness ==
    \E r \in Slots :
        /\ Done(r) /\ reqs[r].op = "protected"
        /\ reqs[r].token \in revoked
        /\ reqs[r].token.sub \in DOMAIN users
        /\ ~users[reqs[r].token.sub].is_active
        /\ reqs[r].trail = <<"revocation">>
        /\ reqs[r].res = CredentialsException

\* C20: a get_current_user call one of whose awaits failed ends with an
\* error and returns no user; a call that returns a user has completed the
\* revocation lookup and the identity lookup (cache, and user store on a
\* miss) without a failure.
C20_FailClosed ==
    \A r \in Slots :
        /\ ~Unfailed(r)
              => (Done(r) /\ ~Returned(r) /\ reqs[r].res = ServerError)
        /\ Returned(r)
              => /\ Unfailed(r)
                 /\ IF reqs[r].hit THEN reqs[r].trail = <<"revocation", "cache">>
                    ELSE reqs[r].trail = GateOrder

C20_Witness ==
    \E r \in Slots :
        /\ Done(r) /\ ~Unfailed(r)
        /\ reqs[r].token \notin revoked
        /\ reqs[r].email \in DOMAIN users
        /\ users[reqs[r].email].is_active
        /\ reqs[r].trail = <<"revocation">>
        /\ reqs[r].res = ServerError

\* C21: decode_refresh_token gives the subject for a refresh-scope token
\* with a good signature, exp not yet passed and a sub claim; for every
\* other token, one without a scope claim included, the refresh route ends
\* with "Invalid scope for token" or "Could not validate credentials".
C21_RefreshDecodeTotal ==
    \A r \in Slots :
        reqs[r].op = "refresh"
            => IF /\ ~JWTError(reqs[r].token, reqs[r].t0)
                  /\ reqs[r].token.scope = "refresh_token"
                  /\ reqs[r].token.sub # NoSubject
               THEN /\ reqs[r].email = reqs[r].token.sub
                    /\ reqs[r].res \notin {InvalidScope, CredentialsException, ServerError}
               ELSE /\ Done(r)
                    /\ reqs[r].res \in {InvalidScope, CredentialsException}
                    /\ reqs[r].out = NoPair

\* C22: change_role stores a new role only for a target that exists, is
\* active and confirmed, and is not the caller; the request that reports
\* the change had such a target, and the other cases end with 404 or 400.
C22_GuardedRoleChange ==
    \A r \in Slots :
        /\ (reqs[r].pc \in {"role_persist", "role_return"} \/ reqs[r].res = RoleChanged)
              => /\ reqs[r].target # NoUser
                 /\ reqs[r].target.is_active /\ reqs[r].target.confirmed
                 /\ reqs[r].target.email # reqs[r].email
        /\ (Done(r) /\ reqs[r].op = "change_role" /\ reqs[r].res # RoleChanged)
              => reqs[r].res \in {"Forbidden", "User not found!",
                                  "You can't change your role",
                                  "You can't change the role of a banned user or not confirmed"}

\* C23: reset_password and confirmed_email accept every token with a good
\* signature, exp not yet passed and a sub claim, whatever its scope: the
\* route goes on with the token's subject, and for the subject of a users
\* row reset_password stores the hash of the new password and
\* confirmed_email leaves the row confirmed.
C23_LinksTakeAnyScope ==
    \A r \in Slots :
        (/\ reqs[r].op \in {"reset_password", "confirmed_email"}
         /\ ~JWTError(reqs[r].token, reqs[r].t0)
         /\ reqs[r].token.sub # NoSubject)
            => /\ reqs[r].email = reqs[r].token.sub
               /\ reqs[r].res # InvalidEmailToken
               /\ (Done(r) /\ reqs[r].token.sub \in DOMAIN users)
                     => IF reqs[r].op = "reset_password"
                        THEN /\ reqs[r].res = ResetComplete
                             /\ users[reqs[r].token.sub].password
                                   = get_password_hash(reqs[r].arg)
                        ELSE /\ reqs[r].res \in {AlreadyConfirmed, EmailConfirmed}
                             /\ users[reqs[r].token.sub].confirmed

C23_Witness ==
    \E r \in Slots :
        /\ Done(r) /\ reqs[r].op = "reset_password"
        /\ reqs[r].token.scope = "access_token"
        /\ reqs[r].token.sub \in DOMAIN users
        /\ reqs[r].res = ResetComplete
        /\ users[reqs[r].token.sub].password = get_password_hash(reqs[r].arg)
        /\ get_password_hash(reqs[r].arg) # InitUsers[reqs[r].token.sub].password

C25_StrayRefreshServed ==
    /\ [](\A r \in Slots :
            (/\ reqs[r].op = "refresh"
             /\ ~JWTError(reqs[r].token, reqs[r].t0)
             /\ reqs[r].token.scope = "refresh_token"
             /\ reqs[r].token.sub = UnknownEmail
             /\ reqs[r].pc # "refresh_db")
                => /\ Done(r) /\ reqs[r].res = "OK"
                   /\ reqs[r].out.access_token.sub = UnknownEmail
                   /\ reqs[r].out.access_token.scope = "access_token"
                   /\ reqs[r].out.refresh_token.sub = UnknownEmail
                   /\ reqs[r].out.refresh_token.scope = "refresh_token"
                   /\ reqs[r].out.refresh_token.iat >= reqs[r].t0)
    /\ [][\A r \in Slots :
            (reqs[r].op = "refresh" /\ reqs[r].token.sub = UnknownEmail)
                => users' = users]_vars

C25_Witness ==
    \E r \in Slots :
        /\ Done(r) /\ reqs[r].op = "refresh"
        /\ reqs[r].token.sub = UnknownEmail
        /\ reqs[r].res = "OK"
        /\ reqs[r].out.refresh_token.sub = UnknownEmail
        /\ reqs[r].out.refresh_token.iat > reqs[r].token.iat

\* C26: what get_current_user writes under user:<email> is the row of that
\* e-mail address as read from the users table with is_active true: every
\* call standing at the cache write or at the expire holds such a row, and
\* every cache entry is such a row, whatever has happened to the user since.
C26_OnlyActiveCached ==
    /\ \A r \in Slots :
          reqs[r].pc \in {"gcu_set", "gcu_expire"}
              => (reqs[r].user.is_active /\ reqs[r].user.email = reqs[r].email)
    /\ \A e \in Emails :
          cache[e].present => (cache[e].user.is_active /\ cache[e].user.email = e)

C26_Witness ==
    \E r \in Slots :
        /\ Done(r) /\ reqs[r].op = "protected"
        /\ reqs[r].res = UserBanned
        /\ reqs[r].trail = GateOrder
        /\ ~reqs[r].user.is_active
        /\ ~cache[reqs[r].email].present

\* C27: when activate_user has reported the activation of a user who was
\* on the ban list, the next request, made with that user's decodable and
\* unrevoked access token, gets the user from get_current_user.
\* activate_user itself touches no cache entry, and no cache entry holds a
\* row with is_active false.
C27_ActivatedIsResolved ==
    /\ \A r \in Slots :
          /\ (Done(r) /\ "afterActivate" \in reqs[r].marks)
                => /\ Returned(r)
                   /\ reqs[r].user.email = reqs[r].email
                   /\ reqs[r].user.is_active
          /\ reqs[r].op = "activate" => reqs[r].log = << >>
    /\ \A e \in Emails : cache[e].present => cache[e].user.is_active

C27_Witness ==
    \E r \in Slots :
        /\ Done(r) /\ "afterActivate" \in reqs[r].marks
        /\ hist.banReported[reqs[r].email]
        /\ Returned(r)
        /\ reqs[r].user.email = reqs[r].token.sub

\* C30: read_users_me and all_users delete the cache entry of the caller
\* that get_current_user resolved: when the route has answered, the entry
\* is gone, and the next get_current_user call for that caller, with no
\* other request of the caller in between, misses the cache and reads the
\* users table.
C30_OwnEntryDeleted ==
    \A r \in Slots :
        /\ (Done(r) /\ reqs[r].op \in {"me", "all_users"} /\ reqs[r].res = "OK")
              => (~cache[reqs[r].email].present /\ reqs[r].log = <<"cache_delete">>)
        /\ "afterOwnDelete" \in reqs[r].marks
              => /\ ~reqs[r].hit
                 /\ reqs[r].pc \notin {"gcu_revoked", "gcu_cache", "gcu_db"}
                       => reqs[r].trail = GateOrder

C30_Witness ==
    \E r \in Slots :
        /\ Done(r) /\ "afterOwnDelete" \in reqs[r].marks
        /\ reqs[r].t0 < CacheTTL
        /\ reqs[r].trail = GateOrder
        /\ Returned(r)

\* C28: login and the refresh route do not look at is_active.  A refresh
\* request of a user on the ban list that presents the stored refresh token
\* is answered with a new token pair whose refresh token is then the stored
\* one, and a login of a user on the ban list with the right password is
\* answered with a pair in the same way.
C28_BannedStillRefreshes ==
    \A r \in Slots :
        /\ (/\ Done(r) /\ reqs[r].op = "refresh"
             /\ reqs[r].user # NoUser
             /\ ~reqs[r].user.is_active
             /\ reqs[r].user.refresh_token = reqs[r].token)
              => /\ reqs[r].res = "OK"
                 /\ reqs[r].out # NoPair
                 /\ reqs[r].out.refresh_token.sub = reqs[r].email
                 /\ users[reqs[r].email].refresh_token = reqs[r].out.refresh_token
        /\ (/\ Done(r) /\ reqs[r].op = "login"
             /\ reqs[r].user # NoUser
             /\ ~reqs[r].user.is_active)
              => /\ reqs[r].res = "OK"
                 /\ reqs[r].out # NoPair
                 /\ users[reqs[r].email].refresh_token = reqs[r].out.refresh_token

C28_Witness ==
    \E r \in Slots :
        /\ Done(r) /\ reqs[r].op = "refresh"
        /\ reqs[r].email \in Emails
        /\ hist.banReported[reqs[r].email]
        /\ ~users[reqs[r].email].is_active
        /\ reqs[r].res = "OK"
        /\ reqs[r].out.refresh_token # reqs[r].token
        /\ users[reqs[r].email].refresh_token = reqs[r].out.refresh_token

\* C29: create_access_token and create_refresh_token called with
\* expires_delta 0 give what they give without expires_delta: exp is iat
\* plus 15 minutes for the access token and iat plus 7 days for the refresh
\* token, never iat itself; with expires_delta d > 0, exp is iat plus d
\* seconds.  iat is the clock reading of the call.
C29_ZeroDeltaIsDefault ==
    \A r \in Slots :
        (Done(r) /\ reqs[r].op = "issue")
            => LET a == reqs[r].out.access_token
                   f == reqs[r].out.refresh_token
                   d == reqs[r].delta
               IN  /\ a.iat = reqs[r].t0 /\ f.iat = reqs[r].t0
                   /\ (d = << >> \/ d = <<0>>)
                         => /\ a.exp = a.iat + AccessMinutes * 60
                            /\ f.exp = f.iat + RefreshDays * 86400
                            /\ a.exp # a.iat /\ f.exp # f.iat
                   /\ (d # << >> /\ d # <<0>>)
                         => /\ d[1] > 0
                            /\ a.exp = a.iat + d[1]
                            /\ f.exp = f.iat + d[1]

C29_Witness ==
    \E r \in Slots :
        /\ Done(r) /\ reqs[r].op = "issue"
        /\ reqs[r].delta = <<0>>
        /\ reqs[r].t0 > 0
        /\ reqs[r].out.access_token.exp = reqs[r].t0 + AccessMinutes * 60
        /\ reqs[r].out.refresh_token.exp = reqs[r].t0 + RefreshDays * 86400

====
